---- MODULE Spec2Model ----
(***************************************************************************)
(* Model of src/component.py: the TextChunker policies and the run of the  *)
(* Component (input table -> rows -> chunks -> embeddings -> CSV records   *)
(* or a JSON corpus), including the exit status set by the __main__ block. *)
(*                                                                         *)
(* A text is a sequence of one-character strings.  The alphabet has a      *)
(* letter, the blank and a sentence terminator.  The NLTK tokenizers are   *)
(* modelled on this alphabet: a "." followed by a blank ends a sentence    *)
(* (letters stand for words that are neither initials nor abbreviations),  *)
(* and a word is a maximal run of non-blank characters, with the final     *)
(* "." of a sentence split off as a token of its own.                      *)
(***************************************************************************)
EXTENDS Integers, Sequences, FiniteSets, TLC

\* ------------------------------------------------------------------ bounds
MaxLen == 4
MaxRows == 2
MaxChunkSize == 2
MaxOverlap == 1

\* --------------------------------------------------------------- constants
DefaultOverlap == 20
UserErrorStatus == 1
InternalErrorStatus == 2

Alphabet == {"a", " ", "."}

\* ------------------------------------------------------- Python primitives
Min(a, b) == IF a < b THEN a ELSE b

\* s[i:j] with 0 <= i, Python slice semantics (clamped to the length)
Slice(s, i, j) ==
    LET lo == Min(i, Len(s))
        hi == Min(j, Len(s))
    IN  IF hi <= lo THEN <<>> ELSE SubSeq(s, lo + 1, hi)

IsSpace(c) == c = " "

RECURSIVE LStrip(_)
LStrip(s) ==
    IF s # <<>> /\ IsSpace(Head(s)) THEN LStrip(Tail(s)) ELSE s

RECURSIVE RStrip(_)
RStrip(s) ==
    IF s # <<>> /\ IsSpace(s[Len(s)]) THEN RStrip(SubSeq(s, 1, Len(s) - 1)) ELSE s

\* str.strip()
Strip(s) == LStrip(RStrip(s))

\* ' '.join(parts)
RECURSIVE Join(_)
Join(parts) ==
    IF parts = <<>> THEN <<>>
    ELSE IF Len(parts) = 1 THEN parts[1]
    ELSE parts[1] \o <<" ">> \o Join(Tail(parts))

\* list(range(0, stop, step)) for step # 0
RECURSIVE RangeFrom(_, _, _)
RangeFrom(i, stop, step) ==
    IF step > 0 /\ i < stop THEN <<i>> \o RangeFrom(i + step, stop, step)
    ELSE <<>>

Range(stop, step) == RangeFrom(0, stop, step)

\* ------------------------------------------------------------- tokenizers
\* index (1-based) of the first "." followed by a blank, 0 if there is none
RECURSIVE BreakAt(_, _)
BreakAt(s, i) ==
    IF i >= Len(s) THEN 0
    ELSE IF s[i] = "." /\ IsSpace(s[i + 1]) THEN i
    ELSE BreakAt(s, i + 1)

\* nltk.tokenize.sent_tokenize
RECURSIVE SentSplit(_)
SentSplit(s) ==
    LET b == BreakAt(s, 1)
    IN  IF b = 0 THEN (IF RStrip(s) = <<>> THEN <<>> ELSE <<RStrip(s)>>)
        ELSE LET rest == LStrip(SubSeq(s, b + 1, Len(s)))
             IN  IF rest = <<>> THEN <<SubSeq(s, 1, b)>>
                 ELSE <<SubSeq(s, 1, b)>> \o SentSplit(rest)

sent_tokenize(text) == SentSplit(text)

\* str.split(): the maximal runs of non-blank characters
RECURSIVE SplitWs(_, _)
SplitWs(s, cur) ==
    IF s = <<>> THEN (IF cur = <<>> THEN <<>> ELSE <<cur>>)
    ELSE IF IsSpace(Head(s))
         THEN (IF cur = <<>> THEN <<>> ELSE <<cur>>) \o SplitWs(Tail(s), <<>>)
         ELSE SplitWs(Tail(s), Append(cur, Head(s)))

\* the Treebank rule that splits the final period of a sentence off its word
SplitFinalPeriod(toks) ==
    IF toks = <<>> THEN toks
    ELSE LET w == toks[Len(toks)]
             n == Len(w)
         IN  IF n >= 2 /\ w[n] = "." /\ w[n - 1] # "."
             THEN SubSeq(toks, 1, Len(toks) - 1) \o <<SubSeq(w, 1, n - 1), <<".">>>>
             ELSE toks

RECURSIVE TokenizeSents(_)
TokenizeSents(sents) ==
    IF sents = <<>> THEN <<>>
    ELSE SplitFinalPeriod(SplitWs(Head(sents), <<>>)) \o TokenizeSents(Tail(sents))

\* nltk.tokenize.word_tokenize
word_tokenize(text) == TokenizeSents(sent_tokenize(text))

\* ------------------------------------------------------------ TextChunker
\* the chunks a generator yields, or the exception its first step raises
Yield(chunks) == [raised |-> "none", chunks |-> chunks]
Raise(type) == [raised |-> type, chunks |-> <<>>]

RECURSIVE KeepNonBlank(_)
KeepNonBlank(cs) ==
    IF cs = <<>> THEN <<>>
    ELSE IF Strip(Head(cs)) # <<>> THEN <<Head(cs)>> \o KeepNonBlank(Tail(cs))
    ELSE KeepNonBlank(Tail(cs))

chunk_by_sentences(text, sentences_per_chunk) ==
    LET sentences == sent_tokenize(text)
        starts == Range(Len(sentences), sentences_per_chunk)
    IN  Yield(KeepNonBlank(
            [k \in 1..Len(starts) |->
                Join(Slice(sentences, starts[k], starts[k] + sentences_per_chunk))]))

chunk_by_words(text, words_per_chunk, overlap) ==
    LET words == word_tokenize(text)
        step == words_per_chunk - overlap
        starts == Range(Len(words), step)
    IN  IF step = 0 THEN Raise("ValueError")
        ELSE Yield(KeepNonBlank(
            [k \in 1..Len(starts) |->
                Join(Slice(words, starts[k], starts[k] + words_per_chunk))]))

\* variant: the slice is tested for blankness but yielded untrimmed
chunk_by_chars_untrimmed(text, chars_per_chunk) ==
    LET starts == Range(Len(text), chars_per_chunk)
        slices == [k \in 1..Len(starts) |->
                      Slice(text, starts[k], starts[k] + chars_per_chunk)]
    IN  Yield(SelectSeq(slices, LAMBDA c : Strip(c) # <<>>))

chunk_by_chars(text, chars_per_chunk) ==
    LET starts == Range(Len(text), chars_per_chunk)
        stripped == [k \in 1..Len(starts) |->
                        Strip(Slice(text, starts[k], starts[k] + chars_per_chunk))]
    IN  Yield(SelectSeq(stripped, LAMBDA c : c # <<>>))

no_chunking(text) ==
    IF Strip(text) # <<>> THEN Yield(<<Strip(text)>>) ELSE Yield(<<>>)


\* --------------------------------------------------------------- inputs
TextsUpTo(n) == UNION {[1..k -> Alphabet] : k \in 0..n}

\* the value csv.DictReader gives the embed column of one row: a string, or
\* None (restval) when the row is shorter than the header
StrCell(t) == [none |-> FALSE, text |-> t]
NoneCell == [none |-> TRUE, text |-> <<>>]

RowTexts ==
    { <<>>, <<" ">>, <<" ", "a">>, <<"a", "a">>, <<"a", " ", "a">>,
      <<"a", ".", " ", "a">> }

SeqsUpTo(S, n) == UNION {[1..k -> S] : k \in 0..n}

ChunkMethods == {"none", "sentences", "words", "characters"}
ChunkSizes == (1..MaxChunkSize) \cup {DefaultOverlap, DefaultOverlap + 1}

\* the settings object: chunk_method, chunk_size and outputFormat are read by
\* the component; overlap is the words-only option of the configuration
Configurations ==
    { c \in [chunk_method : ChunkMethods, chunk_size : ChunkSizes,
             overlap : 0..MaxOverlap, outputFormat : {"csv", "json"}] :
        /\ c.chunk_method = "none" => c.chunk_size = 1
        /\ c.chunk_method # "words" => c.overlap = 0
        /\ c.overlap < c.chunk_size }

\* ------------------------------------------------------------- Component
\* self.chunker(text), as init_chunker binds it
Chunker(c, cell) ==
    IF cell.none
    THEN Raise(IF c.chunk_method = "none" THEN "AttributeError" ELSE "TypeError")
    ELSE CASE c.chunk_method = "sentences" -> chunk_by_sentences(cell.text, c.chunk_size)
           [] c.chunk_method = "words" -> chunk_by_words(cell.text, c.chunk_size, DefaultOverlap)
           [] c.chunk_method = "characters" -> chunk_by_chars(cell.text, c.chunk_size)
           [] OTHER -> no_chunking(cell.text)

DigitChar(d) ==
    CASE d = 0 -> "0" [] d = 1 -> "1" [] d = 2 -> "2" [] d = 3 -> "3" [] d = 4 -> "4"
      [] d = 5 -> "5" [] d = 6 -> "6" [] d = 7 -> "7" [] d = 8 -> "8" [] OTHER -> "9"

RECURSIVE Digits(_)
Digits(n) == IF n < 10 THEN <<DigitChar(n)>> ELSE Append(Digits(n \div 10), DigitChar(n % 10))

\* format(n, "03d")
Fmt03(n) ==
    LET d == Digits(n)
    IN  IF Len(d) = 1 THEN <<"0", "0">> \o d
        ELSE IF Len(d) = 2 THEN <<"0">> \o d
        ELSE d

DocId(doc_idx) == <<"doc_">> \o Fmt03(doc_idx)
NodeId(doc_idx, node_idx) == <<"node_">> \o Fmt03(doc_idx) \o <<"_">> \o Fmt03(node_idx)

\* the handlers of the __main__ block
ExitCode(type) == IF type = "UserException" THEN UserErrorStatus ELSE InternalErrorStatus

\* Of an output record only the source row (its 1-based index standing for the
\* copied input fields), chunk_id, chunk_text and embedding are kept; of the
\* corpus only documents and documentIds; of a document only id and nodes.
NoExc == [type |-> "none", origin |-> "none"]
NoDocument == [id |-> <<>>, nodes |-> <<>>]

VARIABLES
    cfg,            \* self._configuration
    nTables,        \* len(self.get_input_tables_definitions())
    hasEmbedColumn, \* embedColumn is one of reader.fieldnames
    rows,           \* the embed-column cell of each row of the input file
    pc,             \* position of the run
    rowIdx,         \* number of rows read from the reader
    chunks,         \* the chunks of the current row
    chunkIdx,       \* number of chunks of the current row already emitted
    embedding,      \* the embedding returned for the current chunk
    headerWritten,  \* the output CSV file has its header
    output,         \* the records written to the output CSV file
    documents,      \* corpus_data["data"]["documents"]
    documentIds,    \* corpus_data["data"]["index"]["documentIds"]
    document,       \* the document of the current row
    jsonWritten,    \* corpus.json has been written
    exc,            \* the exception that left run(), and where it was raised
    exitStatus,     \* the exit status of the process, -1 while it runs
    calls           \* the embedding calls made so far, in order, with their outcome

vars == <<cfg, nTables, hasEmbedColumn, rows, pc, rowIdx, chunks, chunkIdx, embedding,
          headerWritten, output, documents, documentIds, document, jsonWritten,
          exc, exitStatus, calls>>

inputs == <<cfg, nTables, hasEmbedColumn, rows>>

Start ==
    /\ pc = "run"
    /\ rowIdx = 0
    /\ chunks = <<>>
    /\ chunkIdx = 0
    /\ embedding = "none"
    /\ headerWritten = FALSE
    /\ output = <<>>
    /\ documents = <<>>
    /\ documentIds = <<>>
    /\ document = NoDocument
    /\ jsonWritten = FALSE
    /\ exc = NoExc
    /\ exitStatus = -1
    /\ calls = <<>>

\* the input tables and the input file of a run with at most n rows, whose
\* embed-column cells are drawn from Cells
Inputs(Cells, n) ==
    /\ cfg \in Configurations
    /\ nTables \in 0..2
    /\ hasEmbedColumn \in BOOLEAN
    /\ nTables # 1 => hasEmbedColumn /\ rows = <<>>
    /\ nTables = 1 /\ hasEmbedColumn => rows \in SeqsUpTo(Cells, n)
    /\ nTables = 1 /\ ~hasEmbedColumn => rows \in SeqsUpTo({NoneCell}, n)

Init ==
    /\ Inputs({StrCell(t) : t \in RowTexts} \cup {NoneCell}, MaxRows)
    /\ Start

\* a run over one row, whose text ranges over every string up to MaxLen
ChunkInit ==
    /\ Inputs({StrCell(t) : t \in TextsUpTo(MaxLen)}, 1)
    /\ Start

RaiseFrom(type, origin) ==
    /\ exc' = [type |-> type, origin |-> origin]
    /\ pc' = "raised"

\* run: _get_input_table, then open the input file
GetInputTable ==
    /\ pc = "run"
    /\ IF nTables = 0 \/ nTables > 1
       THEN RaiseFrom("UserException", "_get_input_table")
       ELSE pc' = "dispatch" /\ exc' = exc
    /\ UNCHANGED <<inputs, rowIdx, chunks, chunkIdx, embedding, headerWritten, output,
                   documents, documentIds, document, jsonWritten, exitStatus, calls>>

\* _process_csv_format: open the output file and write the header
WriteHeader ==
    /\ pc = "dispatch"
    /\ cfg.outputFormat # "json"
    /\ headerWritten' = TRUE
    /\ pc' = "rows"
    /\ UNCHANGED <<inputs, rowIdx, chunks, chunkIdx, embedding, output, documents,
                   documentIds, document, jsonWritten, exc, exitStatus, calls>>

\* _process_json_format: build the empty corpus
InitCorpus ==
    /\ pc = "dispatch"
    /\ cfg.outputFormat = "json"
    /\ documents' = <<>>
    /\ documentIds' = <<>>
    /\ pc' = "rows"
    /\ UNCHANGED <<inputs, rowIdx, chunks, chunkIdx, embedding, headerWritten, output,
                   document, jsonWritten, exc, exitStatus, calls>>

\* for row in reader: text = row[embedColumn]; start self.chunker(text)
ReadRow ==
    /\ pc = "rows"
    /\ rowIdx < Len(rows)
    /\ rowIdx' = rowIdx + 1
    /\ LET res == Chunker(cfg, rows[rowIdx + 1])
       IN  IF ~hasEmbedColumn
           THEN /\ RaiseFrom("KeyError", "row")
                /\ UNCHANGED <<chunks, chunkIdx, document>>
           ELSE /\ document' = IF cfg.outputFormat = "json"
                               THEN [id |-> DocId(rowIdx + 1), nodes |-> <<>>]
                               ELSE document
                /\ IF res.raised # "none"
                   THEN /\ RaiseFrom(res.raised, "chunker")
                        /\ UNCHANGED <<chunks, chunkIdx>>
                   ELSE /\ chunks' = res.chunks
                        /\ chunkIdx' = 0
                        /\ pc' = "chunk"
                        /\ exc' = exc
    /\ UNCHANGED <<inputs, embedding, headerWritten, output, documents, documentIds,
                   jsonWritten, exitStatus, calls>>

\* get_embedding: the provider returns a vector or fails
GetEmbedding ==
    /\ pc = "chunk"
    /\ chunkIdx < Len(chunks)
    /\ \E ok \in BOOLEAN :
         /\ calls' = Append(calls, [row |-> rowIdx, chunk |-> chunkIdx, ok |-> ok])
         /\ IF ok
            THEN /\ embedding' = "vector"
                 /\ pc' = "emit"
                 /\ exc' = exc
            ELSE /\ RaiseFrom("UserException", "get_embedding")
                 /\ UNCHANGED embedding
    /\ UNCHANGED <<inputs, rowIdx, chunks, chunkIdx, headerWritten, output, documents,
                   documentIds, document, jsonWritten, exitStatus>>

\* variant: the record replaces the content of the file instead of following it
WriteRow_truncating ==
    /\ pc = "emit"
    /\ cfg.outputFormat # "json"
    /\ output' = <<[row |-> rowIdx, chunk_id |-> chunkIdx,
                    chunk_text |-> chunks[chunkIdx + 1],
                    embedding |-> embedding]>>
    /\ chunkIdx' = chunkIdx + 1
    /\ pc' = "chunk"
    /\ UNCHANGED <<inputs, rowIdx, chunks, embedding, headerWritten, documents,
                   documentIds, document, jsonWritten, exc, exitStatus, calls>>

\* variant: the record is put in front of the records already written
WriteRow_prepending ==
    /\ pc = "emit"
    /\ cfg.outputFormat # "json"
    /\ output' = <<[row |-> rowIdx, chunk_id |-> chunkIdx,
                    chunk_text |-> chunks[chunkIdx + 1],
                    embedding |-> embedding]>> \o output
    /\ chunkIdx' = chunkIdx + 1
    /\ pc' = "chunk"
    /\ UNCHANGED <<inputs, rowIdx, chunks, embedding, headerWritten, documents,
                   documentIds, document, jsonWritten, exc, exitStatus, calls>>

\* writer.writerow(row_copy)
WriteRow ==
    /\ pc = "emit"
    /\ cfg.outputFormat # "json"
    /\ output' = Append(output, [row |-> rowIdx, chunk_id |-> chunkIdx,
                                 chunk_text |-> chunks[chunkIdx + 1],
                                 embedding |-> embedding])
    /\ chunkIdx' = chunkIdx + 1
    /\ pc' = "chunk"
    /\ UNCHANGED <<inputs, rowIdx, chunks, embedding, headerWritten, documents,
                   documentIds, document, jsonWritten, exc, exitStatus, calls>>

\* document["nodes"].append(node)
AppendNode ==
    /\ pc = "emit"
    /\ cfg.outputFormat = "json"
    /\ document' = [document EXCEPT !.nodes =
                        Append(@, [id |-> NodeId(rowIdx, chunkIdx + 1),
                                   content |-> chunks[chunkIdx + 1],
                                   embedding |-> embedding])]
    /\ chunkIdx' = chunkIdx + 1
    /\ pc' = "chunk"
    /\ UNCHANGED <<inputs, rowIdx, chunks, embedding, headerWritten, output, documents,
                   documentIds, jsonWritten, exc, exitStatus, calls>>

\* the chunks of the row are exhausted (CSV): on to the next row
EndRow ==
    /\ pc = "chunk"
    /\ chunkIdx = Len(chunks)
    /\ cfg.outputFormat # "json"
    /\ pc' = "rows"
    /\ UNCHANGED <<inputs, rowIdx, chunks, chunkIdx, embedding, headerWritten, output,
                   documents, documentIds, document, jsonWritten, exc, exitStatus, calls>>

\* variant: a document without nodes is left out of the corpus
AppendDocument_skipping ==
    /\ pc = "chunk"
    /\ chunkIdx = Len(chunks)
    /\ cfg.outputFormat = "json"
    /\ documents' = IF document.nodes = <<>> THEN documents ELSE Append(documents, document)
    /\ documentIds' = Append(documentIds, document.id)
    /\ pc' = "rows"
    /\ UNCHANGED <<inputs, rowIdx, chunks, chunkIdx, embedding, headerWritten, output,
                   document, jsonWritten, exc, exitStatus, calls>>

\* the chunks of the row are exhausted (JSON): append the document and its id
AppendDocument ==
    /\ pc = "chunk"
    /\ chunkIdx = Len(chunks)
    /\ cfg.outputFormat = "json"
    /\ documents' = Append(documents, document)
    /\ documentIds' = Append(documentIds, document.id)
    /\ pc' = "rows"
    /\ UNCHANGED <<inputs, rowIdx, chunks, chunkIdx, embedding, headerWritten, output,
                   document, jsonWritten, exc, exitStatus, calls>>

\* the reader is exhausted (CSV): the output file is closed and run returns
CloseOutput ==
    /\ pc = "rows"
    /\ rowIdx = Len(rows)
    /\ cfg.outputFormat # "json"
    /\ pc' = "returned"
    /\ UNCHANGED <<inputs, rowIdx, chunks, chunkIdx, embedding, headerWritten, output,
                   documents, documentIds, document, jsonWritten, exc, exitStatus, calls>>

\* the reader is exhausted (JSON): json.dump(corpus_data) and run returns
DumpJson ==
    /\ pc = "rows"
    /\ rowIdx = Len(rows)
    /\ cfg.outputFormat = "json"
    /\ jsonWritten' = TRUE
    /\ pc' = "returned"
    /\ UNCHANGED <<inputs, rowIdx, chunks, chunkIdx, embedding, headerWritten, output,
                   documents, documentIds, document, exc, exitStatus, calls>>

\* __main__: exit(1) on UserException, exit(2) on any other exception
Main ==
    /\ pc \in {"raised", "returned"}
    /\ exitStatus' = IF pc = "raised" THEN ExitCode(exc.type) ELSE 0
    /\ pc' = "exit"
    /\ UNCHANGED <<inputs, rowIdx, chunks, chunkIdx, embedding, headerWritten, output,
                   documents, documentIds, document, jsonWritten, exc, calls>>

Next ==
    \/ GetInputTable
    \/ WriteHeader
    \/ InitCorpus
    \/ ReadRow
    \/ GetEmbedding
    \/ WriteRow
    \/ AppendNode
    \/ EndRow
    \/ AppendDocument
    \/ CloseOutput
    \/ DumpJson
    \/ Main

Spec == Init /\ [][Next]_vars

ChunkSpec == ChunkInit /\ [][Next]_vars

TypeOK ==
    /\ pc \in {"run", "dispatch", "rows", "chunk", "emit", "raised", "returned", "exit"}
    /\ rowIdx \in 0..Len(rows)
    /\ chunkIdx \in 0..Len(chunks)
    /\ exitStatus \in {-1, 0, UserErrorStatus, InternalErrorStatus}


\* ================================================================ claims
\* the run has returned from run() without an exception
Completed == pc \in {"returned", "exit"} /\ exc = NoExc

\* the chunker has been applied to the text of the current row
Chunked == pc \in {"chunk", "emit"} /\ ~rows[rowIdx].none

CurrentText == rows[rowIdx].text

IsBlank(t) == \A k \in 1..Len(t) : t[k] = " "

NonBlankCount(cs) == Cardinality({k \in 1..Len(cs) : ~IsBlank(cs[k])})

RECURSIVE SumChunks(_)
SumChunks(n) ==
    IF n = 0 THEN 0 ELSE SumChunks(n - 1) + NonBlankCount(Chunker(cfg, rows[n]).chunks)

RecordsOf(i) == {j \in 1..Len(output) : output[j].row = i}

FailedCalls == {k \in 1..Len(calls) : ~calls[k].ok}

\* C1: when the provider fails for a chunk, no error is raised out of the
\* pipeline and the run does not end with an error status.
C1_ProviderFailureNotFatal ==
    FailedCalls # {} => exc = NoExc /\ exitStatus \in {-1, 0}

\* C2: when the embed column is missing, the error occurs before the header
\* or any record has been written.
C2_NoOutputBeforeMissingColumn ==
    exc.type = "KeyError" => ~headerWritten /\ output = <<>>

\* C3: a completed CSV run with a chunking policy has written, for every
\* input row, as many records as the chunker yields non-empty chunks for the
\* row's text, and no other record; the total is the sum over the rows.
C3_CsvRecordCount ==
    (Completed /\ cfg.outputFormat = "csv" /\ cfg.chunk_method # "none") =>
        /\ \A i \in 1..Len(rows) :
                Cardinality(RecordsOf(i)) = NonBlankCount(Chunker(cfg, rows[i]).chunks)
        /\ \A j \in 1..Len(output) : output[j].row \in 1..Len(rows)
        /\ Len(output) = SumChunks(Len(rows))

C3_Witness ==
    /\ Completed /\ cfg.outputFormat = "csv" /\ cfg.chunk_method # "none"
    /\ \E i, j \in 1..Len(rows) :
          /\ Cardinality(RecordsOf(i)) = 0
          /\ Cardinality(RecordsOf(j)) >= 2

\* C4: a completed CSV run without chunking has written exactly one record
\* per input row, blank rows included.
C4_OneRecordPerRow ==
    (Completed /\ cfg.outputFormat = "csv" /\ cfg.chunk_method = "none") =>
        /\ Len(output) = Len(rows)
        /\ \A i \in 1..Len(rows) : Cardinality(RecordsOf(i)) = 1

\* C8: a run ended by a configuration problem (no input table, several input
\* tables, embed column missing) exits with the user-error status, and the
\* user-error and internal-error statuses differ.
C8_ConfigErrorsExitOne ==
    /\ UserErrorStatus # InternalErrorStatus
    /\ (pc = "exit" /\ exc.origin \in {"_get_input_table", "row"}) =>
            exitStatus = UserErrorStatus


\* the chunker has been called on the text (a string) of the current row
Applied == rowIdx > 0 /\ hasEmbedColumn /\ ~rows[rowIdx].none

\* C5: called on any text under any policy and positive size, the chunker
\* yields a sequence (it does not raise) without an empty or blank chunk, and
\* yields nothing for an empty or blank text.
C5_NoBlankChunk ==
    Applied =>
        /\ exc.origin # "chunker"
        /\ \A k \in 1..Len(chunks) : ~IsBlank(chunks[k])
        /\ IsBlank(CurrentText) => chunks = <<>>

\* the words at positions [k * step, k * step + size) joined by blanks
Window(words, size, step, k) ==
    Join([j \in 1..Min(size, Len(words) - k * step) |-> words[k * step + j]])

\* C6: under the words policy with the configured size and overlap, chunk k
\* is the blank-joined words at positions [k*(size-overlap), k*(size-overlap)
\* + size) of the tokenized text, the last chunk possibly shorter.
C6_WordWindows ==
    (Applied /\ cfg.chunk_method = "words") =>
        LET words == word_tokenize(CurrentText)
            step == cfg.chunk_size - cfg.overlap
            count == (Len(words) + step - 1) \div step
        IN  /\ exc.origin # "chunker"
            /\ Len(chunks) = count
            /\ \A k \in 0..(count - 1) :
                    chunks[k + 1] = Window(words, cfg.chunk_size, step, k)

RECURSIVE Concat(_)
Concat(cs) == IF cs = <<>> THEN <<>> ELSE Head(cs) \o Concat(Tail(cs))

\* C7 as stated: the chunks of the characters policy are the length-n slices
\* themselves: all but the last have length n, the last has length 1..n, and
\* their concatenation is the text.
C7_SlicesReproduceText ==
    (Chunked /\ cfg.chunk_method = "characters") =>
        /\ \A k \in 1..(Len(chunks) - 1) : Len(chunks[k]) = cfg.chunk_size
        /\ chunks # <<>> => Len(chunks[Len(chunks)]) \in 1..cfg.chunk_size
        /\ Concat(chunks) = CurrentText

\* the part of s from its first to its last non-blank character
TrimOf(s) ==
    IF IsBlank(s) THEN <<>>
    ELSE LET solid == {k \in 1..Len(s) : s[k] # " "}
             lo == CHOOSE k \in solid : \A h \in solid : k <= h
             hi == CHOOSE k \in solid : \A h \in solid : h <= k
         IN  [j \in 1..(hi - lo + 1) |-> s[lo + j - 1]]

\* C7 amended: the chunks are the consecutive length-n slices of the text,
\* left to right, each trimmed of leading and trailing blanks, the slices that
\* trim to nothing left out; every chunk has length 1..n; and on a text
\* without blanks all but the last have length n and the concatenation is the
\* text.
C7_TrimmedSlices ==
    (Chunked /\ cfg.chunk_method = "characters") =>
        LET n == cfg.chunk_size
            text == CurrentText
            count == (Len(text) + n - 1) \div n
            RawSlice(k) == [j \in 1..Min(n, Len(text) - k * n) |-> text[k * n + j]]
            kept == {k \in 0..(count - 1) : ~IsBlank(RawSlice(k))}
        IN  /\ Len(chunks) = Cardinality(kept)
            /\ \A k \in kept :
                    chunks[Cardinality({h \in kept : h < k}) + 1] = TrimOf(RawSlice(k))
            /\ \A j \in 1..Len(chunks) : Len(chunks[j]) \in 1..n
            /\ (\A j \in 1..Len(text) : text[j] # " ") =>
                    /\ \A j \in 1..(Len(chunks) - 1) : Len(chunks[j]) = n
                    /\ Concat(chunks) = text

C7_Witness ==
    /\ Chunked /\ cfg.chunk_method = "characters"
    /\ Len(chunks) >= 2
    /\ Len(chunks[1]) < cfg.chunk_size
    /\ Concat(chunks) # CurrentText

DigitVal(c) == CHOOSE d \in 0..9 : DigitChar(d) = c

RECURSIVE ParseNum(_)
ParseNum(ds) ==
    IF ds = <<>> THEN 0
    ELSE 10 * ParseNum(SubSeq(ds, 1, Len(ds) - 1)) + DigitVal(ds[Len(ds)])

\* the two numbers of a node id
NodeNumbers(id) ==
    LET body == Tail(id)
        p == CHOOSE q \in 1..Len(body) : body[q] = "_"
    IN  <<ParseNum(SubSeq(body, 1, p - 1)), ParseNum(SubSeq(body, p + 1, Len(body)))>>

\* C10: once corpus.json is written, documents holds one document per input
\* row in input order (a row without chunks has an empty node list), the
\* documentIds are the documents' ids in the same order, and the nodes of a
\* document are numbered from 1 in chunk order.
C10_JsonCorpus ==
    jsonWritten =>
        /\ Len(documents) = Len(rows)
        /\ Len(documentIds) = Len(documents)
        /\ \A d \in 1..Len(documents) :
              LET doc == documents[d]
                  yielded == Chunker(cfg, rows[d]).chunks
              IN  /\ Head(doc.id) = "doc_"
                  /\ Len(doc.id) >= 4
                  /\ ParseNum(Tail(doc.id)) = d
                  /\ documentIds[d] = doc.id
                  /\ Len(doc.nodes) = Len(yielded)
                  /\ \A k \in 1..Len(doc.nodes) :
                        /\ doc.nodes[k].content = yielded[k]
                        /\ Head(doc.nodes[k].id) = "node_"
                        /\ NodeNumbers(doc.nodes[k].id) = <<d, k>>

C10_Witness ==
    /\ jsonWritten
    /\ \E d, e \in 1..Len(documents) :
          /\ documents[d].nodes = <<>>
          /\ Len(documents[e].nodes) >= 2
          /\ d < e

\* the documents built so far, the one of the current row included
Docs ==
    IF cfg.outputFormat = "json" /\ Len(documents) < rowIdx /\ document # NoDocument
          /\ ParseNum(Tail(document.id)) = rowIdx
    THEN Append(documents, document)
    ELSE documents

RECURSIVE NodePairs(_, _)
NodePairs(docs, d) ==
    IF d > Len(docs) THEN <<>>
    ELSE [k \in 1..Len(docs[d].nodes) |-> <<d, k - 1>>] \o NodePairs(docs, d + 1)

\* the (row, chunk) of every record emitted so far, in the order of emission
Emitted ==
    IF cfg.outputFormat = "json" THEN NodePairs(Docs, 1)
    ELSE [j \in 1..Len(output) |-> <<output[j].row, output[j].chunk_id>>]

Before(p, q) == p[1] < q[1] \/ (p[1] = q[1] /\ p[2] < q[2])

\* C9: records are emitted in input order (by row, then by chunk), each is
\* the record of the chunk at its position, the i-th record is written after
\* the i-th embedding call has returned, and no embedding call is made while
\* the record of the previous one is unwritten.
C9_InputOrder ==
    /\ \A i, j \in 1..Len(Emitted) : i < j => Before(Emitted[i], Emitted[j])
    /\ \A j \in 1..Len(output) :
          output[j].chunk_text = Chunker(cfg, rows[output[j].row]).chunks[output[j].chunk_id + 1]
    /\ \A d \in 1..Len(Docs) : \A k \in 1..Len(Docs[d].nodes) :
          Docs[d].nodes[k].content = Chunker(cfg, rows[d]).chunks[k]
    /\ Len(Emitted) <= Len(calls)
    /\ \A i \in 1..Len(Emitted) :
          calls[i].ok /\ <<calls[i].row, calls[i].chunk>> = Emitted[i]
    /\ Len(calls) <= Len(Emitted) + 1
    /\ Len(calls) = Len(Emitted) + 1 => pc = "emit" \/ ~calls[Len(calls)].ok

C9_Witness ==
    /\ Completed
    /\ Len(Emitted) >= 3
    /\ Emitted[1][1] = 1
    /\ Emitted[Len(Emitted)][1] = 2

====
